---------------------------- MODULE Spec2Model ----------------------------
(***************************************************************************)
(* Model of the mortgage amortization engine of inmuebles-backend-api      *)
(* (app/services/mortgage_calculator.py, class MortgageCalculator).        *)
(*                                                                         *)
(* Numbers.  The engine computes in Python floats.  The model computes in  *)
(* exact rational arithmetic: a number is a pair <<n, d>> with d > 0 in    *)
(* lowest terms.  The engine's thresholds (0.01) and formulas are kept as  *)
(* written; what the model leaves out is the rounding of the last bits of  *)
(* a double, which is far below the cent the engine itself ignores.        *)
(*                                                                         *)
(* Dates.  A date is [month, day]: month is the ordinal of the calendar    *)
(* month (what pd.Period(d, freq="M") keeps), day the day of the month.    *)
(*                                                                         *)
(* Endpoints.  The second half models the router that serves the engine    *)
(* (app/routers/mortgage_details.py): db is the database, a record of      *)
(* tables, each a sequence of rows; a handler is one action from request   *)
(* to response, and in the last part one action up to its commit and one   *)
(* for the commit.  The specifications of the engine leave db empty.       *)
(***************************************************************************)
EXTENDS Integers, Sequences, FiniteSets, TLC

VARIABLES mortgage, revisions, prepayments, call, ret, db

vars == <<mortgage, revisions, prepayments, call, ret, db>>

(***************************************************************************)
(* Exact rational arithmetic (the float operators +, -, *, /, **, <=).     *)
(***************************************************************************)
Abs(x) == IF x < 0 THEN -x ELSE x

RECURSIVE GCD(_, _)
GCD(a, b) == IF b = 0 THEN a ELSE GCD(b, a % b)

Norm(n, d) == LET g == GCD(Abs(n), d) IN <<n \div g, d \div g>>

R(n) == <<n, 1>>
Frac(n, d) == Norm(n, d)

RAdd(a, b) == Norm(a[1] * b[2] + b[1] * a[2], a[2] * b[2])
RSub(a, b) == Norm(a[1] * b[2] - b[1] * a[2], a[2] * b[2])
RMul(a, b) ==
    LET g1 == GCD(Abs(a[1]), b[2])
        g2 == GCD(Abs(b[1]), a[2])
    IN  <<(a[1] \div g1) * (b[1] \div g2), (a[2] \div g2) * (b[2] \div g1)>>
RInv(a) == IF a[1] > 0 THEN <<a[2], a[1]>> ELSE <<-a[2], -a[1]>>
RDiv(a, b) == RMul(a, RInv(b))
RLe(a, b) == a[1] * b[2] <= b[1] * a[2]
RLt(a, b) == a[1] * b[2] < b[1] * a[2]
RMax(a, b) == IF RLe(a, b) THEN b ELSE a

RECURSIVE RPow(_, _)
RPow(a, n) == IF n = 0 THEN R(1) ELSE RMul(a, RPow(a, n - 1))

Zero == R(0)
One == R(1)
Cent == Frac(1, 100)

(***************************************************************************)
(* Dates and month periods.                                                *)
(***************************************************************************)
Date(m, d) == [month |-> m, day |-> d]
DateLe(a, b) == a.month < b.month \/ (a.month = b.month /\ a.day <= b.day)
DateLt(a, b) == DateLe(a, b) /\ a # b
\* pd.Period(d, freq="M")
Period(d) == d.month
\* current_month.to_timestamp().date(): the first day of the month
ToDate(p) == Date(p, 1)

\* Python's None (a null column): no number has denominator 0
None == <<0, 0>>

\* the engine called on objects in memory, with no database session
NoDatabase == <<>>

(***************************************************************************)
(* MortgageCalculator.calculate_monthly_payment                            *)
(***************************************************************************)
\* the annuity spread over one payment too many
calculate_monthly_payment_extra_month(principal, monthly_rate, num_payments) ==
    IF num_payments <= 0 THEN principal
    ELSE IF RLe(monthly_rate, Zero) THEN RDiv(principal, R(num_payments + 1))
    ELSE RDiv(RMul(principal, monthly_rate),
              RSub(One, RInv(RPow(RAdd(One, monthly_rate), num_payments + 1))))

calculate_monthly_payment(principal, monthly_rate, num_payments) ==
    IF num_payments <= 0 THEN principal
    ELSE IF RLe(monthly_rate, Zero) THEN RDiv(principal, R(num_payments))
    ELSE RDiv(RMul(principal, monthly_rate),
              RSub(One, RInv(RPow(RAdd(One, monthly_rate), num_payments))))

(***************************************************************************)
(* MortgageCalculator.generate_amortization_schedule                       *)
(***************************************************************************)
\* sorted(revisions, key=lambda x: x.effective_date): a stable sort
RECURSIVE InsertSorted(_, _)
InsertSorted(s, x) ==
    IF s = <<>> THEN <<x>>
    ELSE IF DateLe(s[Len(s)].effective_date, x.effective_date)
         THEN Append(s, x)
         ELSE Append(InsertSorted(SubSeq(s, 1, Len(s) - 1), x), s[Len(s)])

RECURSIVE SortRevisions(_)
SortRevisions(revs) ==
    IF revs = <<>> THEN <<>>
    ELSE InsertSorted(SortRevisions(SubSeq(revs, 1, Len(revs) - 1)), revs[Len(revs)])

\* prepayments_by_month: the months that have an entry, and each one's sum
PrepaymentMonths(preps) == {Period(preps[i].payment_date) : i \in 1..Len(preps)}

\* the month's entry overwritten by each prepayment instead of added to
RECURSIVE SumPrepaymentsLastOnly(_, _)
SumPrepaymentsLastOnly(preps, p) ==
    IF preps = <<>> THEN Zero
    ELSE LET last == preps[Len(preps)]
         IN  IF Period(last.payment_date) = p THEN last.amount
             ELSE SumPrepaymentsLastOnly(SubSeq(preps, 1, Len(preps) - 1), p)

RECURSIVE SumPrepayments(_, _)
SumPrepayments(preps, p) ==
    IF preps = <<>> THEN Zero
    ELSE LET rest == SumPrepayments(SubSeq(preps, 1, Len(preps) - 1), p)
             last == preps[Len(preps)]
         IN  IF Period(last.payment_date) = p THEN RAdd(rest, last.amount) ELSE rest

\* prepayments_by_month.get(current_month, 0.0)
PrepaymentFor(preps, p) ==
    IF p \in PrepaymentMonths(preps) THEN SumPrepayments(preps, p) ELSE Zero

\* the inner while: advance revision_index while the next revision is effective
RECURSIVE AdvanceRevisionIndex(_, _, _)
AdvanceRevisionIndex(revs, revision_index, month_date) ==
    IF revision_index + 1 < Len(revs)
       /\ DateLe(revs[revision_index + 2].effective_date, month_date)
    THEN AdvanceRevisionIndex(revs, revision_index + 1, month_date)
    ELSE revision_index

\* x or 0.0
OrZero(x) == IF x = None \/ x = Zero THEN Zero ELSE x

\* the revisions read whatever the mortgage_type
AnnualRateOfRevisions(m, revs, revision_index) ==
    IF revs # <<>>
    THEN RAdd(OrZero(revs[revision_index + 1].euribor_rate),
              OrZero(revs[revision_index + 1].margin_rate))
    ELSE m.margin_percentage

\* the revision's margin alone, its euribor_rate left out
AnnualRateOfMargin(m, revs, revision_index) ==
    IF m.mortgage_type = "Fija" THEN m.margin_percentage
    ELSE IF revs # <<>>
         THEN OrZero(revs[revision_index + 1].margin_rate)
         ELSE m.margin_percentage

\* the annual rate of one month, given the revision index after advancing
AnnualRate(m, revs, revision_index) ==
    IF m.mortgage_type = "Fija" THEN m.margin_percentage
    ELSE IF revs # <<>>
         THEN RAdd(OrZero(revs[revision_index + 1].euribor_rate),
                   OrZero(revs[revision_index + 1].margin_rate))
         ELSE m.margin_percentage

\* principal_payment = max(0.0, monthly_payment - interest_payment), capped at balance
RegularPrincipal(balance, monthly_payment, interest_payment) ==
    LET principal_payment == RMax(Zero, RSub(monthly_payment, interest_payment))
    IN  IF RLt(balance, principal_payment) THEN balance ELSE principal_payment

\* a prepayment applied whatever its sign
PrepaymentAppliesAnySign(prepayment_amount) == prepayment_amount # Zero

\* if prepayment_amount > 0
PrepaymentApplies(prepayment_amount) == RLt(Zero, prepayment_amount)

\* a prepayment applied without the cap
CapPrepaymentUncapped(prepayment_amount, balance) == prepayment_amount

\* if prepayment_amount > balance: prepayment_amount = balance
CapPrepayment(prepayment_amount, balance) ==
    IF RLt(balance, prepayment_amount) THEN balance ELSE prepayment_amount

\* a prepayment reported but not taken off the balance
BalanceAfterPrepaymentKept(balance, prepayment_amount) == balance

\* balance -= prepayment_amount
BalanceAfterPrepayment(balance, prepayment_amount) == RSub(balance, prepayment_amount)

\* one iteration of the while loop: the entry appended and the loop state after it
MonthStep(m, revs, preps, current_month, end_month, balance, revision_index) ==
    LET months_remaining == (end_month - current_month) + 1
        month_date == ToDate(current_month)
        idx == IF m.mortgage_type = "Fija" THEN revision_index
               ELSE AdvanceRevisionIndex(revs, revision_index, month_date)
        annual_rate == AnnualRate(m, revs, idx)
        monthly_rate == RDiv(RDiv(annual_rate, R(100)), R(12))
        monthly_payment0 == calculate_monthly_payment(balance, monthly_rate, months_remaining)
        interest_payment == RMul(balance, monthly_rate)
        capped == RLt(balance, RMax(Zero, RSub(monthly_payment0, interest_payment)))
        principal_payment == RegularPrincipal(balance, monthly_payment0, interest_payment)
        monthly_payment == IF capped THEN RAdd(interest_payment, principal_payment)
                           ELSE monthly_payment0
        balance1 == RMax(Zero, RSub(balance, principal_payment))
        prepayment0 == PrepaymentFor(preps, current_month)
        applies == PrepaymentApplies(prepayment0)
        prepayment_amount == IF applies THEN CapPrepayment(prepayment0, balance1)
                             ELSE prepayment0
        balance2 == IF applies THEN BalanceAfterPrepayment(balance1, prepayment_amount)
                    ELSE balance1
    IN  [entry |-> [month |-> current_month,
                    payment |-> IF applies THEN RAdd(monthly_payment, prepayment_amount)
                                ELSE monthly_payment,
                    interest |-> interest_payment,
                    principal |-> IF applies THEN RAdd(principal_payment, prepayment_amount)
                                  ELSE principal_payment,
                    balance |-> balance2,
                    annual_rate |-> annual_rate,
                    prepayment |-> prepayment_amount],
         balance |-> balance2,
         revision_index |-> idx]

\* the loop going on to end_month whatever the balance
RECURSIVE ScheduleLoopPastPayoff(_, _, _, _, _, _, _, _)
ScheduleLoopPastPayoff(m, revs, preps, current_month, end_month, balance, revision_index, schedule) ==
    IF current_month <= end_month
    THEN LET s == MonthStep(m, revs, preps, current_month, end_month, balance, revision_index)
         IN  ScheduleLoopPastPayoff(m, revs, preps, current_month + 1, end_month,
                                    s.balance, s.revision_index, Append(schedule, s.entry))
    ELSE schedule

RECURSIVE ScheduleLoop(_, _, _, _, _, _, _, _)
ScheduleLoop(m, revs, preps, current_month, end_month, balance, revision_index, schedule) ==
    IF current_month <= end_month /\ RLt(Cent, balance)
    THEN LET s == MonthStep(m, revs, preps, current_month, end_month, balance, revision_index)
         IN  ScheduleLoop(m, revs, preps, current_month + 1, end_month,
                          s.balance, s.revision_index, Append(schedule, s.entry))
    ELSE schedule

\* a schedule built for the magnitude of any amount but zero
generate_amortization_schedule_of_magnitude(m, revs, preps) ==
    IF m.initial_amount = Zero THEN <<>>
    ELSE ScheduleLoop(m, SortRevisions(revs), preps,
                      Period(m.start_date), Period(m.end_date),
                      IF RLt(m.initial_amount, Zero)
                      THEN RSub(Zero, m.initial_amount) ELSE m.initial_amount, 0, <<>>)

\* a schedule that starts from the recorded outstanding_balance
generate_amortization_schedule_from_outstanding(m, revs, preps) ==
    IF RLe(m.initial_amount, Zero) THEN <<>>
    ELSE ScheduleLoop(m, SortRevisions(revs), preps,
                      Period(m.start_date), Period(m.end_date),
                      m.outstanding_balance, 0, <<>>)

generate_amortization_schedule(m, revs, preps) ==
    IF RLe(m.initial_amount, Zero) THEN <<>>
    ELSE ScheduleLoop(m, SortRevisions(revs), preps,
                      Period(m.start_date), Period(m.end_date),
                      m.initial_amount, 0, <<>>)


(***************************************************************************)
(* MortgageCalculator.calculate_prepayment_impact                          *)
(***************************************************************************)
RECURSIVE SumField(_, _)
SumField(schedule, f) ==
    IF schedule = <<>> THEN Zero
    ELSE RAdd(SumField(SubSeq(schedule, 1, Len(schedule) - 1), f), schedule[Len(schedule)][f])

\* existing_prepayments + [new_prepayment]: a new list, the argument is left alone
AllPrepayments(existing_prepayments, new_prepayment) ==
    existing_prepayments \o <<new_prepayment>>

\* the difference taken the wrong way round
InterestSavingsReversed(original_schedule, new_schedule) ==
    RSub(SumField(new_schedule, "interest"), SumField(original_schedule, "interest"))

\* interest_savings = original_total_interest - new_total_interest
InterestSavings(original_schedule, new_schedule) ==
    RSub(SumField(original_schedule, "interest"), SumField(new_schedule, "interest"))

\* the difference taken the wrong way round
TimeSavingsReversed(original_schedule, new_schedule) ==
    Len(new_schedule) - Len(original_schedule)

\* time_savings_months = len(original_schedule) - len(new_schedule)
TimeSavings(original_schedule, new_schedule) ==
    Len(original_schedule) - Len(new_schedule)

\* what follows the two calls of generate_amortization_schedule
ImpactOfSchedules(original_schedule, new_schedule, new_amount) ==
    IF original_schedule = <<>> \/ new_schedule = <<>>
    THEN [error |-> "Could not calculate prepayment impact"]
    ELSE [prepayment_amount |-> new_amount,
          interest_savings |-> InterestSavings(original_schedule, new_schedule),
          time_savings_months |-> TimeSavings(original_schedule, new_schedule),
          original_term_months |-> Len(original_schedule),
          new_term_months |-> Len(new_schedule),
          original_total_interest |-> SumField(original_schedule, "interest"),
          new_total_interest |-> SumField(new_schedule, "interest")]

calculate_prepayment_impact(m, revs, existing_prepayments, new_amount, new_date) ==
    ImpactOfSchedules(
        generate_amortization_schedule(m, revs, existing_prepayments),
        generate_amortization_schedule(m, revs,
            AllPrepayments(existing_prepayments,
                           [payment_date |-> new_date, amount |-> new_amount])),
        new_amount)

(***************************************************************************)
(* MortgageCalculator.calculate_current_payment_and_balance                *)
(***************************************************************************)
\* no date given (as_of_date = None): no date has day 0
NoDate == Date(0, 0)

\* the loop over the entries: the position of the last one not after target_period,
\* found before the first one that is; 0 while current_entry is None
RECURSIVE CurrentEntry(_, _, _, _)
CurrentEntry(schedule, i, target_period, current_entry) ==
    IF i > Len(schedule) THEN current_entry
    ELSE IF schedule[i].month <= target_period
         THEN CurrentEntry(schedule, i + 1, target_period, i)
         ELSE current_entry

\* the last entry taken when no entry is past
FallbackEntryLast(schedule) == schedule[Len(schedule)]

\* if not current_entry: the first entry
FallbackEntry(schedule) == schedule[1]

\* if not as_of_date: today
AsOf(as_of_date, today) == IF as_of_date = NoDate THEN today ELSE as_of_date

\* the dict returned for the entry chosen
StatusOfEntry(current_entry, as_of_date) ==
    [current_payment |-> current_entry.payment,
     current_balance |-> current_entry.balance,
     annual_rate |-> current_entry.annual_rate,
     as_of_date |-> as_of_date]

\* the entry at the position the loop found, or the fallback when it found none
ChosenEntry(schedule, found) ==
    IF found = 0 THEN FallbackEntry(schedule) ELSE schedule[found]

\* what follows the call of generate_amortization_schedule
StatusOfSchedule(schedule, m, as_of_date) ==
    IF schedule = <<>>
    THEN [current_payment |-> Zero,
          current_balance |-> m.outstanding_balance,
          as_of_date |-> as_of_date]
    ELSE StatusOfEntry(ChosenEntry(schedule,
                                   CurrentEntry(schedule, 1, Period(as_of_date), 0)),
                       as_of_date)

calculate_current_payment_and_balance(m, revs, preps, as_of_date, today) ==
    StatusOfSchedule(generate_amortization_schedule(m, revs, preps),
                     m, AsOf(as_of_date, today))

(***************************************************************************)
(* MortgageCalculator.calculate_mortgage_summary                           *)
(***************************************************************************)
\* what follows the call of generate_amortization_schedule; current_status is
\* only read when the schedule has entries
SummaryOfSchedule(schedule, current_status, m) ==
    IF schedule = <<>>
    THEN [total_payments |-> Zero,
          total_interest |-> Zero,
          total_principal |-> m.initial_amount,
          total_prepayments |-> Zero,
          loan_term_months |-> 0,
          current_payment |-> Zero,
          current_balance |-> m.outstanding_balance]
    ELSE [total_payments |-> SumField(schedule, "payment"),
          total_interest |-> SumField(schedule, "interest"),
          total_principal |-> SumField(schedule, "principal"),
          total_prepayments |-> SumField(schedule, "prepayment"),
          loan_term_months |-> Len(schedule),
          current_payment |-> current_status.current_payment,
          current_balance |-> current_status.current_balance,
          annual_rate |-> IF "annual_rate" \in DOMAIN current_status
                          THEN current_status.annual_rate ELSE Zero]

calculate_mortgage_summary(m, revs, preps, today) ==
    SummaryOfSchedule(generate_amortization_schedule(m, revs, preps),
                      calculate_current_payment_and_balance(m, revs, preps, NoDate, today),
                      m)

(***************************************************************************)
(* MortgageCalculator.generate_revision_calendar                           *)
(*                                                                         *)
(* Month 0 is the January of a year that is not a leap year.               *)
(***************************************************************************)
DaysInMonth(p) ==
    LET m == p % 12
    IN  IF m = 1 THEN 28 ELSE IF m \in {3, 5, 8, 10} THEN 30 ELSE 31

\* d + relativedelta(months=+n): the same day n months later, or the last day of
\* that month when it has no such day
AddMonths(d, n) ==
    Date(d.month + n,
         IF d.day <= DaysInMonth(d.month + n) THEN d.day ELSE DaysInMonth(d.month + n))

\* date.isoformat(): the string YYYY-MM-DD, which is not a date
IsoFormat(d) == [isoformat |-> <<d.month, d.day>>]

\* the loop leaving out a date equal to end_date
RECURSIVE CalendarLoopBeforeEnd(_, _, _, _)
CalendarLoopBeforeEnd(current_date, end_date, period_months, revision_dates) ==
    IF DateLt(current_date, end_date)
    THEN CalendarLoopBeforeEnd(AddMonths(current_date, period_months), end_date,
                               period_months, Append(revision_dates, IsoFormat(current_date)))
    ELSE revision_dates

RECURSIVE CalendarLoop(_, _, _, _)
CalendarLoop(current_date, end_date, period_months, revision_dates) ==
    IF DateLe(current_date, end_date)
    THEN CalendarLoop(AddMonths(current_date, period_months), end_date,
                      period_months, Append(revision_dates, IsoFormat(current_date)))
    ELSE revision_dates

generate_revision_calendar(start_date, end_date, period_months, margin_percentage) ==
    IF period_months <= 0 THEN <<>>
    ELSE CalendarLoop(start_date, end_date, period_months, <<>>)

(***************************************************************************)
(* Inputs: the loans, revision lists and prepayment lists the engine is    *)
(* called with.                                                            *)
(***************************************************************************)
\* the last calendar month of the model (months are 0..MaxMonth)
MaxMonth == 2
\* the most revision and prepayment records, together, one schedule is built from
MaxRecords == 2

Months == 0..MaxMonth
Days == {1, 15}
Dates == {Date(m, d) : m \in Months, d \in Days}
FirstDays == {Date(m, 1) : m \in Months}

\* mortgage_type and margin_percentage (percent a year)
LoanTerms == {<<"Fija", Zero>>, <<"Fija", R(1200)>>, <<"Variable", R(600)>>}
EuriborRates == {None, R(-1500)}
MarginRates == {R(1200)}
PrepaymentAmounts == {R(-50), R(40), R(500)}
CandidateAmounts == {R(10), R(40)}

Loan(initial_amount, terms, start_date, end_date) ==
    [initial_amount |-> initial_amount,
     outstanding_balance |-> R(50),
     mortgage_type |-> terms[1],
     margin_percentage |-> terms[2],
     start_date |-> start_date,
     end_date |-> end_date,
     review_period_months |-> 12]

\* loans of 120 under every terms and window, three loans of nothing to amortize,
\* and a loan that ends earlier in the month it starts in
Loans ==
    {Loan(R(120), t, Date(s, 1), e) : t \in LoanTerms, s \in 0..1, e \in FirstDays}
        \cup {Loan(a, <<"Fija", R(1200)>>, Date(0, 1), Date(1, 1)) : a \in {R(-120), Zero, Cent}}
        \cup {Loan(R(120), <<"Fija", R(1200)>>, Date(1, 15), Date(1, 1))}

Revisions == [effective_date : Dates, euribor_rate : EuriborRates, margin_rate : MarginRates]
Prepayments == [payment_date : FirstDays, amount : PrepaymentAmounts]

SeqsUpTo(S, n) == UNION {[1..k -> S] : k \in 0..n}

Idle == [op |-> "idle"]

\* A Fixed loan never reads its revisions: it is given one at most.
Init ==
    /\ mortgage \in Loans
    /\ revisions \in SeqsUpTo(Revisions, IF mortgage.mortgage_type = "Fija" /\ MaxRecords > 1
                                         THEN 1 ELSE MaxRecords)
    /\ prepayments \in SeqsUpTo(Prepayments, MaxRecords - Len(revisions))
    /\ call = Idle
    /\ ret = None
    /\ db = NoDatabase

\* a caller invokes generate_amortization_schedule on its loan and collections
GenerateSchedule ==
    /\ call = Idle
    /\ call' = [op |-> "generate_amortization_schedule"]
    /\ ret' = generate_amortization_schedule(mortgage, revisions, prepayments)
    /\ UNCHANGED <<db, mortgage, revisions, prepayments>>

\* the candidate appended to the caller's own list (existing_prepayments.append)
PrepaymentImpactInPlace(amount, payment_date) ==
    /\ call = Idle
    /\ Len(revisions) + Len(prepayments) < MaxRecords
    /\ call' = [op |-> "calculate_prepayment_impact",
                amount |-> amount, payment_date |-> payment_date]
    /\ ret' = calculate_prepayment_impact(mortgage, revisions, prepayments,
                                          amount, payment_date)
    /\ prepayments' = Append(prepayments,
                             [payment_date |-> payment_date, amount |-> amount])
    /\ UNCHANGED <<db, mortgage, revisions>>

\* a caller invokes calculate_prepayment_impact with a candidate prepayment
PrepaymentImpact(amount, payment_date) ==
    /\ call = Idle
    /\ Len(revisions) + Len(prepayments) < MaxRecords
    /\ call' = [op |-> "calculate_prepayment_impact",
                amount |-> amount, payment_date |-> payment_date]
    /\ ret' = calculate_prepayment_impact(mortgage, revisions, prepayments,
                                          amount, payment_date)
    /\ UNCHANGED <<db, mortgage, revisions, prepayments>>

\* the caller has built its response; the result is discarded
Return ==
    /\ call # Idle
    /\ call' = Idle
    /\ ret' = None
    /\ UNCHANGED <<db, mortgage, revisions, prepayments>>

Next ==
    \/ GenerateSchedule
    \/ \E a \in CandidateAmounts, d \in FirstDays : PrepaymentImpact(a, d)
    \/ Return

Spec == Init /\ [][Next]_vars


(***************************************************************************)
(* The status and the summary of a loan.                                   *)
(***************************************************************************)
\* the dates a status is asked for, and the days it is asked on
AsOfDates == FirstDays \cup {NoDate}
Todays == {Date(0, 15), Date(MaxMonth, 15)}

InitStatus ==
    /\ mortgage \in Loans
    /\ revisions \in SeqsUpTo(Revisions, MaxRecords - 1)
    /\ prepayments \in SeqsUpTo(Prepayments, MaxRecords - 1 - Len(revisions))
    /\ call = Idle
    /\ ret = None
    /\ db = NoDatabase

\* a caller invokes calculate_current_payment_and_balance, with a date or without
CurrentStatus(as_of_date, today) ==
    /\ call = Idle
    /\ call' = [op |-> "calculate_current_payment_and_balance",
                as_of_date |-> as_of_date, today |-> today]
    /\ ret' = calculate_current_payment_and_balance(mortgage, revisions, prepayments,
                                                    as_of_date, today)
    /\ UNCHANGED <<db, mortgage, revisions, prepayments>>

\* a caller invokes calculate_mortgage_summary
Summary(today) ==
    /\ call = Idle
    /\ call' = [op |-> "calculate_mortgage_summary", today |-> today]
    /\ ret' = calculate_mortgage_summary(mortgage, revisions, prepayments, today)
    /\ UNCHANGED <<db, mortgage, revisions, prepayments>>

NextStatus ==
    \/ \E d \in AsOfDates, t \in Todays : CurrentStatus(d, t)
    \/ \E t \in Todays : Summary(t)
    \/ Return

SpecStatus == InitStatus /\ [][NextStatus]_vars

(***************************************************************************)
(* The revision calendar of a loan.                                        *)
(***************************************************************************)
CalendarDays == {1, 28, 31}
CalendarDates == {c \in {Date(m, d) : m \in Months, d \in CalendarDays} : c.day <= DaysInMonth(c.month)}
ReviewPeriods == {-1, 0, 1, 2}

CalendarLoans ==
    {[Loan(R(120), <<"Variable", R(600)>>, s, e) EXCEPT !.review_period_months = p] :
        s \in CalendarDates, e \in CalendarDates, p \in ReviewPeriods}

InitCalendar ==
    /\ mortgage \in CalendarLoans
    /\ revisions = <<>>
    /\ prepayments = <<>>
    /\ call = Idle
    /\ ret = None
    /\ db = NoDatabase

\* a caller invokes generate_revision_calendar with the loan's dates and cadence
RevisionCalendar ==
    /\ call = Idle
    /\ call' = [op |-> "generate_revision_calendar"]
    /\ ret' = generate_revision_calendar(mortgage.start_date, mortgage.end_date,
                                         mortgage.review_period_months,
                                         mortgage.margin_percentage)
    /\ UNCHANGED <<db, mortgage, revisions, prepayments>>

NextCalendar ==
    \/ RevisionCalendar
    \/ Return

SpecCalendar == InitCalendar /\ [][NextCalendar]_vars

(***************************************************************************)
(* Concurrent invocations of the engine.  Here call and ret hold one call  *)
(* and one result per thread.  The threads are handed the same loan,       *)
(* revision list and prepayment list objects; an invocation reads them     *)
(* while it runs, after other invocations have started or finished.  Every *)
(* operation of the engine is a static method that assigns to its locals   *)
(* only, so no step of an invocation changes a shared object.              *)
(***************************************************************************)
Threads == {1, 2}

\* the invocations a thread makes
Invocations ==
    {[op |-> "generate_amortization_schedule"]}
        \cup {[op |-> "calculate_current_payment_and_balance",
               as_of_date |-> Date(1, 1), today |-> Date(0, 15)]}
        \cup {[op |-> "calculate_mortgage_summary", today |-> Date(0, 15)]}
        \cup {[op |-> "calculate_prepayment_impact",
               amount |-> R(40), payment_date |-> Date(0, 1)]}

\* what an invocation returns for a loan and its collections
Result(c, m, revs, preps) ==
    CASE c.op = "generate_amortization_schedule" ->
            generate_amortization_schedule(m, revs, preps)
      [] c.op = "calculate_current_payment_and_balance" ->
            calculate_current_payment_and_balance(m, revs, preps, c.as_of_date, c.today)
      [] c.op = "calculate_mortgage_summary" ->
            calculate_mortgage_summary(m, revs, preps, c.today)
      [] c.op = "calculate_prepayment_impact" ->
            calculate_prepayment_impact(m, revs, preps, c.amount, c.payment_date)

ConcurrentLoans == {Loan(R(120), <<"Variable", R(600)>>, Date(0, 1), Date(MaxMonth, 1))}

InitConcurrent ==
    /\ mortgage \in ConcurrentLoans
    /\ revisions \in SeqsUpTo(Revisions, MaxRecords - 1)
    /\ prepayments \in SeqsUpTo(Prepayments, MaxRecords - 1 - Len(revisions))
    /\ call = [t \in Threads |-> Idle]
    /\ ret = [t \in Threads |-> None]
    /\ db = NoDatabase

\* a thread enters an operation; given is what it was handed
Invoke(t, c) ==
    /\ call[t] = Idle
    /\ call' = [call EXCEPT ![t] = [invocation |-> c, pc |-> "running",
                                    given |-> <<mortgage, revisions, prepayments>>]]
    /\ UNCHANGED <<db, mortgage, revisions, prepayments, ret>>

\* an operation that appends its candidate to the list it was handed
CompleteInPlace(t) ==
    /\ call[t] # Idle /\ call[t].pc = "running"
    /\ ret' = [ret EXCEPT ![t] = Result(call[t].invocation, mortgage, revisions, prepayments)]
    /\ call' = [call EXCEPT ![t].pc = "done"]
    /\ prepayments' =
          IF call[t].invocation.op = "calculate_prepayment_impact"
          THEN Append(prepayments, [payment_date |-> call[t].invocation.payment_date,
                                    amount |-> call[t].invocation.amount])
          ELSE prepayments
    /\ UNCHANGED <<db, mortgage, revisions>>

\* the operation runs to its return statement, reading the shared objects
Complete(t) ==
    /\ call[t] # Idle /\ call[t].pc = "running"
    /\ ret' = [ret EXCEPT ![t] = Result(call[t].invocation, mortgage, revisions, prepayments)]
    /\ call' = [call EXCEPT ![t].pc = "done"]
    /\ UNCHANGED <<db, mortgage, revisions, prepayments>>

\* the thread has used its result
Respond(t) ==
    /\ call[t] # Idle /\ call[t].pc = "done"
    /\ call' = [call EXCEPT ![t] = Idle]
    /\ ret' = [ret EXCEPT ![t] = None]
    /\ UNCHANGED <<db, mortgage, revisions, prepayments>>

NextConcurrent ==
    \/ \E t \in Threads, c \in Invocations : Invoke(t, c)
    \/ \E t \in Threads : Complete(t)
    \/ \E t \in Threads : Respond(t)

SpecConcurrent == InitConcurrent /\ [][NextConcurrent]_vars

(***************************************************************************)
(* Properties of the schedule.                                             *)
(***************************************************************************)
IsSchedule == call.op = "generate_amortization_schedule"
IsImpact == call.op = "calculate_prepayment_impact"

RAbs(a) == IF a[1] < 0 THEN <<-a[1], a[2]>> ELSE a

\* a loan that keeps the data model's invariant
ValidLoan(m) == RLt(Zero, m.initial_amount) /\ DateLe(m.start_date, m.end_date)

\* the month's balance before its prepayment was applied
BalanceBeforePrepayment(e) ==
    IF RLt(Zero, e.prepayment) THEN RAdd(e.balance, e.prepayment) ELSE e.balance

\* C1 (P1, payoff): for a valid loan and no prepayments, the principal paid over
\* the whole schedule equals initial_amount within 0.01 and the last entry's
\* balance is at most 0.01.
C1_Payoff ==
    (IsSchedule /\ ValidLoan(mortgage) /\ prepayments = <<>>) =>
        /\ RLe(RAbs(RSub(SumField(ret, "principal"), mortgage.initial_amount)), Cent)
        /\ ret # <<>> => RLe(ret[Len(ret)].balance, Cent)

C1_Witness ==
    /\ IsSchedule /\ ValidLoan(mortgage) /\ prepayments = <<>>
    /\ mortgage.mortgage_type = "Variable" /\ Len(revisions) = 2
    /\ Len(ret) >= 3
    /\ ret[1].annual_rate # ret[Len(ret)].annual_rate
    /\ RLt(Zero, ret[Len(ret)].interest)

\* C2 (P2, monotonic balance): the first balance is at most initial_amount and
\* every balance is at most the balance of the entry before it.
C2_MonotonicBalance ==
    IsSchedule =>
        /\ ret # <<>> => RLe(ret[1].balance, mortgage.initial_amount)
        /\ \A i \in 2..Len(ret) : RLe(ret[i].balance, ret[i - 1].balance)

C2_Witness ==
    /\ IsSchedule /\ Len(ret) >= 2
    /\ \E i \in 1..Len(ret) : RLt(ret[i].annual_rate, Zero)
    /\ \E i \in 1..Len(ret) : RLt(ret[i].prepayment, Zero)
    /\ \E i \in 2..Len(ret) : RLt(ret[i].balance, ret[i - 1].balance)

\* C3 (P3, a prepayment never over-applies): the prepayment an entry reports is at
\* most the balance left after that month's regular amortization, and no entry's
\* balance is negative.
C3_PrepaymentCapped ==
    IsSchedule =>
        \A i \in 1..Len(ret) :
            /\ RLe(ret[i].prepayment, BalanceBeforePrepayment(ret[i]))
            /\ RLe(Zero, ret[i].balance)

C3_Witness ==
    /\ IsSchedule
    /\ \E i \in 1..Len(ret) :
          /\ RLt(BalanceBeforePrepayment(ret[i]), PrepaymentFor(prepayments, ret[i].month))
          /\ RLt(Zero, ret[i].prepayment)
          /\ ret[i].prepayment = BalanceBeforePrepayment(ret[i])
          /\ ret[i].balance = Zero

\* benchmark + margin of a revision, a null benchmark counting as 0
RevisionRate(r) ==
    RAdd(IF r.euribor_rate = None THEN Zero ELSE r.euribor_rate, r.margin_rate)

\* C4 (P4, rate selection): for a Variable loan with two revisions at D1 < D2, a
\* revision applying from the calendar month that contains its effective_date:
\* every entry from D2's month on has the rate of the second revision, and every
\* entry from D1's month up to the month before D2's has the rate of the first.
C4_RateSelection ==
    (IsSchedule /\ mortgage.mortgage_type = "Variable" /\ Len(revisions) = 2) =>
        \A i, j \in 1..2 :
            DateLt(revisions[i].effective_date, revisions[j].effective_date) =>
                \A k \in 1..Len(ret) :
                    /\ ret[k].month >= Period(revisions[j].effective_date)
                          => ret[k].annual_rate = RevisionRate(revisions[j])
                    /\ (/\ ret[k].month >= Period(revisions[i].effective_date)
                        /\ ret[k].month < Period(revisions[j].effective_date))
                          => ret[k].annual_rate = RevisionRate(revisions[i])

\* C5: for a Variable loan with revisions, every entry of a month earlier than the
\* earliest revision's effective month has the loan's own margin_percentage as
\* annual_rate.
C5_MarginBeforeFirstRevision ==
    (IsSchedule /\ mortgage.mortgage_type = "Variable" /\ revisions # <<>>) =>
        \A k \in 1..Len(ret) :
            (\A i \in 1..Len(revisions) :
                ret[k].month < Period(revisions[i].effective_date))
            => ret[k].annual_rate = mortgage.margin_percentage

\* the other orders a collection can be listed in
Orderings(s) ==
    {[i \in 1..Len(s) |-> s[f[i]]] : f \in Permutations(1..Len(s))} \ {s}

\* C6 (P5, determinism) as claimed: the schedule returned is the one the engine
\* returns for the same loan with the revisions and the prepayments listed in any
\* other order.
C6_AnyOrder ==
    IsSchedule =>
        /\ \A revs \in Orderings(revisions) :
              generate_amortization_schedule(mortgage, revs, prepayments) = ret
        /\ \A preps \in Orderings(prepayments) :
              generate_amortization_schedule(mortgage, revisions, preps) = ret

\* C11: a loan with initial_amount <= 0 gets an empty schedule, whatever its
\* revisions and prepayments.
C11_NoAmountNoSchedule ==
    (IsSchedule /\ RLe(mortgage.initial_amount, Zero)) => ret = <<>>

C11_Witness ==
    /\ IsSchedule /\ RLt(mortgage.initial_amount, Zero)
    /\ ret = <<>>
    /\ revisions # <<>> /\ prepayments # <<>>
    /\ DateLe(mortgage.start_date, mortgage.end_date)

\* C12 as claimed: a loan whose end_date is earlier than its start_date, by the
\* day, gets an empty schedule.
C12_EndBeforeStartIsEmpty ==
    (IsSchedule /\ DateLt(mortgage.end_date, mortgage.start_date)) => ret = <<>>

\* C13: the entries are the months from start_date's month on, one calendar month
\* apart, none after end_date's month, and only the last entry may have a balance
\* of 0.01 or less.
C13_OneEntryPerMonth ==
    IsSchedule =>
        /\ ret # <<>> => ret[1].month = Period(mortgage.start_date)
        /\ \A i \in 2..Len(ret) : ret[i].month = ret[i - 1].month + 1
        /\ \A i \in 1..Len(ret) : ret[i].month <= Period(mortgage.end_date)
        /\ ret # <<>> =>
              Len(ret) <= Period(mortgage.end_date) - Period(mortgage.start_date) + 1
        /\ \A i \in 1..(Len(ret) - 1) : RLt(Cent, ret[i].balance)

C13_Witness ==
    /\ IsSchedule /\ Len(ret) >= 2
    /\ Len(ret) < Period(mortgage.end_date) - Period(mortgage.start_date) + 1
    /\ RLe(ret[Len(ret)].balance, Cent)

(***************************************************************************)
(* Properties of the prepayment impact.                                    *)
(***************************************************************************)
IsImpactResult == IsImpact /\ "interest_savings" \in DOMAIN ret

\* the schedule of the loan as it stands, and with one more prepayment
OriginalSchedule == generate_amortization_schedule(mortgage, revisions, prepayments)
ScheduleWith(amount, payment_date) ==
    generate_amortization_schedule(mortgage, revisions,
        prepayments \o <<[payment_date |-> payment_date, amount |-> amount]>>)

\* the balance a schedule leaves at the end of a month (nothing when it has no entry)
OutstandingAt(schedule, p) ==
    IF \E k \in 1..Len(schedule) : schedule[k].month = p
    THEN (CHOOSE e \in {schedule[k] : k \in 1..Len(schedule)} : e.month = p).balance
    ELSE Zero

NonNegativeRates(schedule) ==
    \A k \in 1..Len(schedule) : RLe(Zero, schedule[k].annual_rate)

InWindow(d) ==
    Period(mortgage.start_date) <= Period(d) /\ Period(d) <= Period(mortgage.end_date)

\* the smaller positive candidates the reported one is compared with, both within
\* the balance outstanding at the candidate's month
SmallerCandidates(original_schedule) ==
    {a \in CandidateAmounts :
        /\ RLt(Zero, a) /\ RLt(a, call.amount)
        /\ RLe(call.amount, OutstandingAt(original_schedule, Period(call.payment_date)))}

SavingsOf(amount) ==
    calculate_prepayment_impact(mortgage, revisions, prepayments,
                                amount, call.payment_date).interest_savings

\* C7 (P6, impact monotonicity) as claimed: the interest_savings reported for a
\* candidate amount is at least the one reported for any smaller positive amount
\* at the same date, both within the balance outstanding at that month.
C7_SavingsMonotonic ==
    IsImpactResult =>
        \A a \in SmallerCandidates(OriginalSchedule) :
            RLe(SavingsOf(a), ret.interest_savings)

\* C7 as amended: the same, when no annual rate of the schedule is negative.
C7_SavingsMonotonicNonNegativeRates ==
    IsImpactResult =>
        LET original_schedule == OriginalSchedule
        IN  NonNegativeRates(original_schedule) =>
                \A a \in SmallerCandidates(original_schedule) :
                    RLe(SavingsOf(a), ret.interest_savings)

C7_Witness ==
    /\ IsImpactResult /\ NonNegativeRates(OriginalSchedule)
    /\ prepayments # <<>>
    /\ \E a \in SmallerCandidates(OriginalSchedule) :
          RLt(SavingsOf(a), ret.interest_savings)

\* what the impact reports is the difference of the two schedules
ReportsDifferences ==
    /\ ret.original_total_interest = SumField(OriginalSchedule, "interest")
    /\ ret.new_total_interest =
          SumField(ScheduleWith(call.amount, call.payment_date), "interest")
    /\ ret.interest_savings = RSub(ret.original_total_interest, ret.new_total_interest)
    /\ ret.time_savings_months = ret.original_term_months - ret.new_term_months
    /\ ret.original_term_months = Len(OriginalSchedule)
    /\ ret.new_term_months = Len(ScheduleWith(call.amount, call.payment_date))

\* C8 as claimed: for a positive candidate dated within the loan window,
\* interest_savings >= 0 and time_savings_months >= 0, both being the differences
\* of the two schedules; interest_savings is negative only outside the window.
C8_SavingsNonNegative ==
    (IsImpactResult /\ RLt(Zero, call.amount)) =>
        /\ ReportsDifferences
        /\ InWindow(call.payment_date) =>
              RLe(Zero, ret.interest_savings) /\ ret.time_savings_months >= 0
        /\ RLt(ret.interest_savings, Zero) => ~InWindow(call.payment_date)

\* C8 as amended: for a positive candidate, time_savings_months >= 0, and
\* interest_savings >= 0 when no annual rate of the schedule is negative; a
\* candidate outside the window saves nothing, so interest_savings is negative
\* only within the window, under a negative rate.
C8_SavingsNonNegativeRates ==
    (IsImpactResult /\ RLt(Zero, call.amount)) =>
        /\ ret.interest_savings = RSub(ret.original_total_interest, ret.new_total_interest)
        /\ ret.time_savings_months = ret.original_term_months - ret.new_term_months
        /\ ret.time_savings_months >= 0
        /\ ~InWindow(call.payment_date) =>
              ret.interest_savings = Zero /\ ret.time_savings_months = 0
        /\ LET original_schedule == OriginalSchedule
           IN  /\ ret.original_term_months = Len(original_schedule)
               /\ ret.original_total_interest = SumField(original_schedule, "interest")
               /\ NonNegativeRates(original_schedule) => RLe(Zero, ret.interest_savings)
               /\ RLt(ret.interest_savings, Zero) =>
                     InWindow(call.payment_date) /\ ~NonNegativeRates(original_schedule)

C8_Witness ==
    /\ IsImpactResult /\ RLt(Zero, call.amount) /\ InWindow(call.payment_date)
    /\ NonNegativeRates(OriginalSchedule)
    /\ RLt(Zero, ret.interest_savings)
    /\ ret.time_savings_months > 0

\* the index of the first entry with balance <= 0.01 (past the end when there is none)
PayoffIndex(schedule) ==
    IF \E k \in 1..Len(schedule) : RLe(schedule[k].balance, Cent)
    THEN CHOOSE k \in 1..Len(schedule) :
            /\ RLe(schedule[k].balance, Cent)
            /\ \A j \in 1..(k - 1) : ~RLe(schedule[j].balance, Cent)
    ELSE Len(schedule) + 1

WithoutPrepayments == generate_amortization_schedule(mortgage, revisions, <<>>)

\* a Fixed loan at a positive rate with one prepayment, of a cent at least
FixedWithOnePrepayment ==
    /\ IsSchedule /\ mortgage.mortgage_type = "Fija"
    /\ RLt(Zero, mortgage.margin_percentage)
    /\ Len(prepayments) = 1 /\ RLe(Cent, prepayments[1].amount)

\* the prepayment's month is a month of the schedule without it, and not its last
StrictlyInside(without) ==
    \E k \in 1..(Len(without) - 1) :
        without[k].month = Period(prepayments[1].payment_date)

C10_PrepaymentsUntouched ==
    [][IsImpact' => prepayments' = prepayments]_vars

C10_Witness ==
    /\ IsImpactResult
    /\ Len(prepayments) = 1
    /\ ret.prepayment_amount = call.amount

\* the outcome of an operation that fails with an InvalidInput error
InvalidInput == [raised |-> "InvalidInput"]

\* C16 as claimed: when the schedule without the candidate or the schedule with it
\* is empty, calculate_prepayment_impact fails with an InvalidInput error and
\* returns no result.
C16_EmptyScheduleIsInvalidInput ==
    (/\ IsImpact
     /\ \/ OriginalSchedule = <<>>
        \/ ScheduleWith(call.amount, call.payment_date) = <<>>)
    => ret = InvalidInput

\* C17 as claimed: for a candidate dated after the loan's end_date, on a loan with
\* a schedule, calculate_prepayment_impact fails with an InvalidInput error and
\* returns no savings.
C17_CandidateAfterEndIsInvalidInput ==
    (/\ IsImpact
     /\ OriginalSchedule # <<>>
     /\ DateLt(mortgage.end_date, call.payment_date))
    => ret = InvalidInput

(***************************************************************************)
(* Properties of the status and the summary.                               *)
(***************************************************************************)
IsStatus == call.op = "calculate_current_payment_and_balance"
IsSummary == call.op = "calculate_mortgage_summary"

\* the entries of a schedule that are not after the month of a date
NotAfter(schedule, d) == {i \in 1..Len(schedule) : schedule[i].month <= Period(d)}

Last(S) == CHOOSE i \in S : \A j \in S : j <= i

\* the entry the status of a date is read from
EntryOf(schedule, d) ==
    IF NotAfter(schedule, d) = {} THEN schedule[1]
    ELSE schedule[Last(NotAfter(schedule, d))]

\* C14: the status is the payment, balance and annual_rate of the last entry whose
\* month is not after as_of_date's month: the first entry when as_of_date precedes
\* the loan, the last entry when it is after the last entry; with an empty
\* schedule it is payment 0 and the loan's outstanding_balance.
C14_StatusOfLastEntryNotAfter ==
    IsStatus =>
        LET schedule == OriginalSchedule
            d == ret.as_of_date
        IN  /\ d = AsOf(call.as_of_date, call.today)
            /\ schedule = <<>> =>
                  /\ ret.current_payment = Zero
                  /\ ret.current_balance = mortgage.outstanding_balance
            /\ schedule # <<>> =>
                  /\ ret.current_payment = EntryOf(schedule, d).payment
                  /\ ret.current_balance = EntryOf(schedule, d).balance
                  /\ ret.annual_rate = EntryOf(schedule, d).annual_rate
                  /\ Period(d) < Period(mortgage.start_date) =>
                        ret.current_balance = schedule[1].balance
                  /\ Period(d) > schedule[Len(schedule)].month =>
                        ret.current_balance = schedule[Len(schedule)].balance

C14_Witness ==
    /\ IsStatus /\ call.as_of_date # NoDate
    /\ Len(OriginalSchedule) >= 3
    /\ Last(NotAfter(OriginalSchedule, ret.as_of_date)) = 2
    /\ ret.current_balance = OriginalSchedule[2].balance
    /\ ret.current_balance # OriginalSchedule[1].balance
    /\ ret.current_balance # OriginalSchedule[3].balance

\* C15 as claimed: over an empty schedule every total of the summary is zero and
\* current_balance is the loan's outstanding_balance; over a schedule with entries
\* each total is the sum of its field over the entries.
C15_SummaryTotals ==
    IsSummary =>
        LET schedule == OriginalSchedule
        IN  /\ schedule = <<>> =>
                  /\ ret.total_payments = Zero /\ ret.total_interest = Zero
                  /\ ret.total_principal = Zero /\ ret.total_prepayments = Zero
                  /\ ret.loan_term_months = 0
                  /\ ret.current_balance = mortgage.outstanding_balance
            /\ schedule # <<>> =>
                  /\ ret.total_payments = SumField(schedule, "payment")
                  /\ ret.total_interest = SumField(schedule, "interest")
                  /\ ret.total_principal = SumField(schedule, "principal")
                  /\ ret.total_prepayments = SumField(schedule, "prepayment")
                  /\ ret.loan_term_months = Len(schedule)

(***************************************************************************)
(* Properties of the revision calendar.                                    *)
(***************************************************************************)
IsCalendar == call.op = "generate_revision_calendar"

\* date.fromisoformat: the date an ISO string stands for
FromIso(s) == Date(s.isoformat[1], s.isoformat[2])

\* the k-th date of a calendar, counted from 0
CalendarDate(k) == FromIso(ret[k + 1])

CalendarOfPositivePeriod == IsCalendar /\ mortgage.review_period_months > 0

\* what the two statements of C18 share: the dates increase, none is after
\* end_date, the first is start_date, and there is none when start_date is after
\* end_date
CalendarWithinWindow ==
    /\ \A k \in 1..(Len(ret) - 1) : DateLt(CalendarDate(k - 1), CalendarDate(k))
    /\ \A k \in 0..(Len(ret) - 1) : DateLe(CalendarDate(k), mortgage.end_date)
    /\ DateLe(mortgage.start_date, mortgage.end_date) =>
          ret # <<>> /\ CalendarDate(0) = mortgage.start_date
    /\ DateLt(mortgage.end_date, mortgage.start_date) => ret = <<>>

\* C18 as claimed: for a positive period the k-th date is start_date advanced by
\* k * period_months calendar months, and every such date up to end_date is there.
C18_CalendarOfMultiples ==
    CalendarOfPositivePeriod =>
        /\ CalendarWithinWindow
        /\ \A k \in 0..(Len(ret) - 1) :
              CalendarDate(k) = AddMonths(mortgage.start_date,
                                          k * mortgage.review_period_months)
        /\ \A k \in 0..MaxMonth :
              DateLe(AddMonths(mortgage.start_date, k * mortgage.review_period_months),
                     mortgage.end_date)
              => k < Len(ret)

\* C18 as amended: for a positive period each date is the one before it advanced
\* by period_months calendar months, a day the month lacks becoming the month's
\* last day from then on; the calendar goes on until the next date would be after
\* end_date; the k-th date is start_date advanced by k * period_months months
\* when start_date's day is 28 or less.
C18_CalendarStepByStep ==
    CalendarOfPositivePeriod =>
        /\ CalendarWithinWindow
        /\ \A k \in 1..(Len(ret) - 1) :
              CalendarDate(k) = AddMonths(CalendarDate(k - 1), mortgage.review_period_months)
        /\ ret # <<>> =>
              DateLt(mortgage.end_date,
                     AddMonths(CalendarDate(Len(ret) - 1), mortgage.review_period_months))
        /\ mortgage.start_date.day <= 28 =>
              \A k \in 0..(Len(ret) - 1) :
                  CalendarDate(k) = AddMonths(mortgage.start_date,
                                              k * mortgage.review_period_months)

C18_Witness ==
    /\ CalendarOfPositivePeriod
    /\ Len(ret) >= 3
    /\ mortgage.start_date.day = 31
    /\ CalendarDate(2) # AddMonths(mortgage.start_date, 2 * mortgage.review_period_months)
    /\ CalendarDate(2) = AddMonths(CalendarDate(1), mortgage.review_period_months)

\* C19 as claimed: for a period_months of zero or less generate_revision_calendar
\* fails with an InvalidInput error and returns no calendar.
C19_NoPeriodIsInvalidInput ==
    (IsCalendar /\ mortgage.review_period_months <= 0) => ret = InvalidInput

(***************************************************************************)
(* Properties of concurrent invocations.                                   *)
(***************************************************************************)
Done(t) == call[t] # Idle /\ call[t].pc = "done"
Running(t) == call[t] # Idle /\ call[t].pc = "running"

\* C20: under any interleaving, the result of every invocation is the result of
\* the same invocation run alone on what it was handed, and the shared loan,
\* revisions and prepayments are still what every running invocation was handed.
C20_SameResultAsAlone ==
    \A t \in Threads :
        /\ Done(t) =>
              ret[t] = Result(call[t].invocation,
                              call[t].given[1], call[t].given[2], call[t].given[3])
        /\ call[t] # Idle => call[t].given = <<mortgage, revisions, prepayments>>

C20_Witness ==
    /\ Running(1) /\ call[1].invocation.op = "generate_amortization_schedule"
    /\ Done(2) /\ call[2].invocation.op = "calculate_prepayment_impact"
    /\ "interest_savings" \in DOMAIN ret[2]
    /\ prepayments # <<>>

(***************************************************************************)
(* Schedules of one loan under many revision and prepayment records:       *)
(* revisions on Fixed loans as well, prepayments on any day of a month.    *)
(***************************************************************************)
RecordLoans ==
    {Loan(R(120), t, Date(0, 1), Date(MaxMonth, 1)) :
        t \in {<<"Fija", R(1200)>>, <<"Variable", R(600)>>}}
FirstDayRevisions ==
    [effective_date : FirstDays, euribor_rate : EuriborRates, margin_rate : MarginRates]
DatedPrepayments == [payment_date : Dates, amount : PrepaymentAmounts]

InitRecords ==
    /\ mortgage \in RecordLoans
    /\ revisions \in SeqsUpTo(FirstDayRevisions, MaxRecords)
    /\ prepayments \in SeqsUpTo(DatedPrepayments, MaxRecords - Len(revisions))
    /\ call = Idle
    /\ ret = None
    /\ db = NoDatabase

NextRecords ==
    \/ GenerateSchedule
    \/ Return

SpecRecords == InitRecords /\ [][NextRecords]_vars

\* C22: every entry of a Fixed loan's schedule has the loan's margin_percentage as
\* its annual_rate, and the schedule is the one the loan has with no revisions at
\* all: no list of revisions changes it.
C22_FixedIgnoresRevisions ==
    (IsSchedule /\ mortgage.mortgage_type = "Fija") =>
        /\ \A i \in 1..Len(ret) : ret[i].annual_rate = mortgage.margin_percentage
        /\ ret = generate_amortization_schedule(mortgage, <<>>, prepayments)

C22_Witness ==
    /\ IsSchedule /\ mortgage.mortgage_type = "Fija"
    /\ Len(revisions) = MaxRecords
    /\ \A k \in 1..Len(revisions) :
          RevisionRate(revisions[k]) # mortgage.margin_percentage
    /\ Len(ret) = MaxMonth + 1
    /\ \A i \in 1..Len(ret) : ret[i].annual_rate = mortgage.margin_percentage

\* C23: a Variable loan with no revisions has its margin_percentage as the
\* annual_rate of every entry; with revisions every entry's annual_rate is the
\* euribor_rate plus the margin_rate of one of them, a null euribor_rate counting
\* as 0: of the only revision when there is one, and a margin_rate when every
\* euribor_rate is null.
C23_VariableRate ==
    (IsSchedule /\ mortgage.mortgage_type = "Variable") =>
        \A i \in 1..Len(ret) :
            /\ revisions = <<>> => ret[i].annual_rate = mortgage.margin_percentage
            /\ revisions # <<>> =>
                  \E k \in 1..Len(revisions) :
                      ret[i].annual_rate = RevisionRate(revisions[k])
            /\ Len(revisions) = 1 => ret[i].annual_rate = RevisionRate(revisions[1])
            /\ (revisions # <<>>
                /\ \A k \in 1..Len(revisions) : revisions[k].euribor_rate = None) =>
                  \E k \in 1..Len(revisions) :
                      ret[i].annual_rate = revisions[k].margin_rate

C23_Witness ==
    /\ IsSchedule /\ mortgage.mortgage_type = "Variable"
    /\ Len(revisions) = 2
    /\ revisions[1].euribor_rate = None /\ revisions[2].euribor_rate # None
    /\ DateLt(revisions[1].effective_date, revisions[2].effective_date)
    /\ \E i, j \in 1..Len(ret) :
          /\ ret[i].annual_rate = revisions[1].margin_rate
          /\ ret[j].annual_rate = RAdd(revisions[2].euribor_rate, revisions[2].margin_rate)
          /\ ret[i].annual_rate # ret[j].annual_rate

\* the amounts of the prepayments 1..i that are dated in month p, added up
RECURSIVE MonthTotal(_, _, _)
MonthTotal(preps, p, i) ==
    IF i = 0 THEN Zero
    ELSE RAdd(MonthTotal(preps, p, i - 1),
              IF Period(preps[i].payment_date) = p THEN preps[i].amount ELSE Zero)

\* one prepayment for each month from p on that has any, of the month's total
RECURSIVE OnePerMonth(_, _)
OnePerMonth(preps, p) ==
    IF p > MaxMonth THEN <<>>
    ELSE (IF \E i \in 1..Len(preps) : Period(preps[i].payment_date) = p
          THEN <<[payment_date |-> Date(p, 1), amount |-> MonthTotal(preps, p, Len(preps))]>>
          ELSE <<>>) \o OnePerMonth(preps, p + 1)

RMin(a, b) == IF RLe(a, b) THEN a ELSE b

\* C24: the schedule is the one built from a single prepayment a month, of the sum
\* of the month's prepayments, and every entry's prepayment is the smaller of that
\* sum and the balance left after the month's regular amortization.
C24_SameMonthSummed ==
    IsSchedule =>
        /\ ret = generate_amortization_schedule(mortgage, revisions,
                                                OnePerMonth(prepayments, 0))
        /\ \A i \in 1..Len(ret) :
              ret[i].prepayment =
                  RMin(MonthTotal(prepayments, ret[i].month, Len(prepayments)),
                       BalanceBeforePrepayment(ret[i]))

C24_Witness ==
    /\ IsSchedule /\ Len(prepayments) = 2
    /\ Period(prepayments[1].payment_date) = Period(prepayments[2].payment_date)
    /\ prepayments[1].payment_date.day # prepayments[2].payment_date.day
    /\ \E i \in 1..Len(ret) :
          /\ ret[i].month = Period(prepayments[1].payment_date)
          /\ RLt(Zero, ret[i].prepayment)
          /\ ret[i].prepayment = RAdd(prepayments[1].amount, prepayments[2].amount)
          /\ RLt(Zero, ret[i].balance)

\* the closed-form annuity payment balance * r(1+r)^n / ((1+r)^n - 1), balance / n
\* at rate 0 and the balance itself when no payment is left
Annuity(balance, r, n) ==
    IF n <= 0 THEN balance
    ELSE IF r = Zero THEN RDiv(balance, R(n))
    ELSE RDiv(RMul(balance, RMul(r, RPow(RAdd(One, r), n))),
              RSub(RPow(RAdd(One, r), n), One))

\* the balance a month starts with, and what it pays before its prepayment
BalanceBefore(schedule, i) ==
    IF i = 1 THEN mortgage.initial_amount ELSE schedule[i - 1].balance
PaymentBeforePrepayment(e) ==
    IF RLt(Zero, e.prepayment) THEN RSub(e.payment, e.prepayment) ELSE e.payment

\* C25: every month's payment before its prepayment is the closed-form annuity
\* payment over the balance the month starts with, the month's rate (negative
\* rates included) and months_remaining = end_month - current_month + 1.
C25_AnnuityAtEveryRate ==
    IsSchedule =>
        \A i \in 1..Len(ret) :
            PaymentBeforePrepayment(ret[i]) =
                Annuity(BalanceBefore(ret, i),
                        RDiv(RDiv(ret[i].annual_rate, R(100)), R(12)),
                        Period(mortgage.end_date) - ret[i].month + 1)

(***************************************************************************)
(* Loans that differ in the recorded outstanding_balance, through the      *)
(* schedule, the status and the summary.                                   *)
(***************************************************************************)
OutstandingBalances == {R(50), R(70)}

\* loans of 120 that run their window, loans that end before they start, and a
\* loan of nothing: each with either recorded balance
BalanceLoans ==
    {[Loan(a, t, Date(w[1], 1), Date(w[2], 1)) EXCEPT !.outstanding_balance = ob] :
        a \in {R(120)}, t \in {<<"Fija", R(1200)>>, <<"Variable", R(600)>>},
        w \in {<<0, MaxMonth>>, <<1, 0>>}, ob \in OutstandingBalances}
      \cup {[Loan(Zero, <<"Fija", R(1200)>>, Date(0, 1), Date(MaxMonth, 1))
                EXCEPT !.outstanding_balance = ob] : ob \in OutstandingBalances}

InitBalance ==
    /\ mortgage \in BalanceLoans
    /\ revisions \in SeqsUpTo(Revisions, MaxRecords - 1)
    /\ prepayments \in SeqsUpTo(Prepayments, MaxRecords - 1 - Len(revisions))
    /\ call = Idle
    /\ ret = None
    /\ db = NoDatabase

NextBalance ==
    \/ GenerateSchedule
    \/ \E d \in AsOfDates, t \in Todays : CurrentStatus(d, t)
    \/ \E t \in Todays : Summary(t)
    \/ Return

SpecBalance == InitBalance /\ [][NextBalance]_vars

\* the loan with another recorded balance
WithOutstanding(ob) == [mortgage EXCEPT !.outstanding_balance = ob]

\* a status or summary that agrees with another on everything, or on everything
\* but current_balance when the schedule is empty
SameButFallback(schedule, result, other, ob) ==
    IF schedule = <<>>
    THEN /\ result.current_balance = mortgage.outstanding_balance
         /\ other = [result EXCEPT !.current_balance = ob]
    ELSE other = result

\* C26: a loan that differs only in outstanding_balance has the same schedule, and
\* the same status and summary unless the schedule is empty, when current_balance
\* is the recorded outstanding_balance and nothing else differs.
C26_OutstandingBalanceUnused ==
    \A ob \in OutstandingBalances :
        /\ IsSchedule =>
              generate_amortization_schedule(WithOutstanding(ob), revisions, prepayments)
                  = ret
        /\ IsStatus =>
              SameButFallback(
                  generate_amortization_schedule(mortgage, revisions, prepayments), ret,
                  calculate_current_payment_and_balance(WithOutstanding(ob), revisions,
                      prepayments, call.as_of_date, call.today), ob)
        /\ IsSummary =>
              SameButFallback(
                  generate_amortization_schedule(mortgage, revisions, prepayments), ret,
                  calculate_mortgage_summary(WithOutstanding(ob), revisions, prepayments,
                                             call.today), ob)

C26_Witness ==
    /\ IsSummary
    /\ mortgage.outstanding_balance = R(70)
    /\ ret.loan_term_months = MaxMonth + 1
    /\ ret.current_balance # mortgage.outstanding_balance
    /\ ret = calculate_mortgage_summary(WithOutstanding(R(50)), revisions, prepayments,
                                        call.today)

\* C28: in every schedule each entry has payment = interest + principal and
\* 0 <= prepayment <= principal; the principal of all entries adds up to
\* initial_amount minus the last balance; and a schedule that reaches end_date's
\* month ends with balance 0.
C28_RowsAndConservation ==
    (IsSchedule /\ ret # <<>>) =>
        /\ \A i \in 1..Len(ret) :
              /\ ret[i].payment = RAdd(ret[i].interest, ret[i].principal)
              /\ RLe(Zero, ret[i].prepayment)
              /\ RLe(ret[i].prepayment, ret[i].principal)
        /\ SumField(ret, "principal") =
              RSub(mortgage.initial_amount, ret[Len(ret)].balance)
        /\ ret[Len(ret)].month = Period(mortgage.end_date) =>
              ret[Len(ret)].balance = Zero

(***************************************************************************)
(* The mortgage-details router (app/routers/mortgage_details.py) over its  *)
(* database session.  db holds the tables of app/models.py that the router *)
(* reads and writes, each a sequence of rows in insertion order; a handler *)
(* is one action from its request to its response, commit included.        *)
(***************************************************************************)
\* the users that send requests, and the Property rows: id -> owner_id
Users == {1, 2}
Property == (1 :> 1) @@ (2 :> 2)

Rows(table) == {table[i] : i \in 1..Len(table)}

\* session.get(Table, id): whether it finds a row, and the row
Has(table, id) == \E r \in Rows(table) : r.id = id
Get(table, id) == CHOOSE r \in Rows(table) : r.id = id

\* the primary key the database gives a new row
NextId(table) ==
    IF table = <<>> THEN 1
    ELSE 1 + (CHOOSE n \in {r.id : r \in Rows(table)} : \A r \in Rows(table) : r.id <= n)

\* session.add(row); session.delete(row); setattr on a loaded row
Insert(table, row) == Append(table, row)
Remove(table, id) == SelectSeq(table, LAMBDA r : r.id # id)
Replace(table, row) ==
    [i \in 1..Len(table) |-> IF table[i].id = row.id THEN row ELSE table[i]]

\* for field, value in data.dict(exclude_unset=True).items(): setattr(row, field, value)
SetFields(row, data) ==
    [f \in DOMAIN row |-> IF f \in DOMAIN data THEN data[f] ELSE row[f]]

\* select(Table).where(Table.mortgage_id == mortgage_id)
OfMortgage(table, mortgage_id) == SelectSeq(table, LAMBDA r : r.mortgage_id = mortgage_id)

\* .order_by(MortgagePrepayment.payment_date)
RECURSIVE OrderByPaymentDate(_)
OrderByPaymentDate(rows) ==
    IF rows = <<>> THEN <<>>
    ELSE LET first == CHOOSE i \in 1..Len(rows) :
                          \A j \in 1..Len(rows) :
                              \/ DateLt(rows[i].payment_date, rows[j].payment_date)
                              \/ (rows[i].payment_date = rows[j].payment_date /\ i <= j)
         IN  <<rows[first]>> \o
                 OrderByPaymentDate([k \in 1..(Len(rows) - 1) |->
                                        IF k < first THEN rows[k] ELSE rows[k + 1]])

\* .first(): the first row or None
First(rows) == IF rows = <<>> THEN None ELSE rows[1]

\* raise HTTPException(status_code, detail), and a handler's return value
HTTPException(status_code, detail) == [status_code |-> status_code, detail |-> detail]
Ok(body) == [status_code |-> 200, body |-> body]
\* an exception no handler catches
Unhandled(exception) == [status_code |-> 500, exception |-> exception]

\* property_obj and property_obj.owner_id == current_user.id
Owns(current_user, property_id) ==
    property_id \in DOMAIN Property /\ Property[property_id] = current_user

\* a mortgage found whoever owns its property
FoundOfAnyOwner(current_user, mortgage_id) == Has(db.mortgagedetails, mortgage_id)

\* the mortgage exists and its property belongs to the caller: otherwise 404
Found(current_user, mortgage_id) ==
    /\ Has(db.mortgagedetails, mortgage_id)
    /\ Owns(current_user, Get(db.mortgagedetails, mortgage_id).property_id)

MortgageNotFound == HTTPException(404, "Mortgage not found")
PropertyNotFound == HTTPException(404, "Property not found")

\* a request handled: the caller, what it is answered and what is committed
Request(c, response, database) ==
    /\ call = Idle
    /\ call' = c
    /\ ret' = response
    /\ db' = database
    /\ UNCHANGED <<mortgage, revisions, prepayments>>

\* GET /mortgage-details/?property_id=: the caller's own mortgages; 0 is no filter
get_mortgage_details(current_user, property_id) ==
    /\ Request([op |-> "get_mortgage_details", current_user |-> current_user,
             property_id |-> property_id],
            Ok(SelectSeq(db.mortgagedetails,
                         LAMBDA m : /\ Owns(current_user, m.property_id)
                                    /\ (property_id # 0 => m.property_id = property_id))),
            db)

\* the unique index on mortgagedetails.property_id
UniqueProperty(table, property_id) == \A r \in Rows(table) : r.property_id # property_id

\* POST /mortgage-details/
create_mortgage_details(current_user, mortgage_data) ==
    LET row == [id |-> NextId(db.mortgagedetails)] @@ mortgage_data
    IN  /\ NextId(db.mortgagedetails) <= MaxRecords
        /\ Request([op |-> "create_mortgage_details", current_user |-> current_user,
                    property_id |-> mortgage_data.property_id],
                   IF ~Owns(current_user, mortgage_data.property_id) THEN PropertyNotFound
                   ELSE IF ~UniqueProperty(db.mortgagedetails, mortgage_data.property_id)
                        THEN HTTPException(400, "Mortgage details already exist for this property")
                        ELSE Ok(row),
                   IF Owns(current_user, mortgage_data.property_id)
                      /\ UniqueProperty(db.mortgagedetails, mortgage_data.property_id)
                   THEN [db EXCEPT !.mortgagedetails = Insert(@, row)]
                   ELSE db)

\* GET /mortgage-details/{mortgage_id}
get_mortgage_detail(current_user, mortgage_id) ==
    /\ Request([op |-> "get_mortgage_detail", current_user |-> current_user,
             mortgage_id |-> mortgage_id],
            IF Found(current_user, mortgage_id)
            THEN Ok(Get(db.mortgagedetails, mortgage_id)) ELSE MortgageNotFound,
            db)

\* PUT /mortgage-details/{mortgage_id}
update_mortgage_details(current_user, mortgage_id, mortgage_data) ==
    LET row == SetFields(Get(db.mortgagedetails, mortgage_id), mortgage_data)
    IN  /\ Request([op |-> "update_mortgage_details", current_user |-> current_user,
                 mortgage_id |-> mortgage_id],
                IF Found(current_user, mortgage_id) THEN Ok(row) ELSE MortgageNotFound,
                IF Found(current_user, mortgage_id)
                THEN [db EXCEPT !.mortgagedetails = Replace(@, row)] ELSE db)

\* the rows that reference a mortgage: the session sets their mortgage_id to NULL
\* when the mortgage is deleted, which the NOT NULL column refuses
HasChildren(mortgage_id) ==
    \/ OfMortgage(db.mortgagerevision, mortgage_id) # <<>>
    \/ OfMortgage(db.mortgageprepayment, mortgage_id) # <<>>

\* DELETE /mortgage-details/{mortgage_id}
delete_mortgage_details(current_user, mortgage_id) ==
    /\ Request([op |-> "delete_mortgage_details", current_user |-> current_user,
             mortgage_id |-> mortgage_id],
            IF ~Found(current_user, mortgage_id) THEN MortgageNotFound
            ELSE IF HasChildren(mortgage_id) THEN Unhandled("IntegrityError")
            ELSE Ok([message |-> "Mortgage details deleted successfully"]),
            IF Found(current_user, mortgage_id) /\ ~HasChildren(mortgage_id)
            THEN [db EXCEPT !.mortgagedetails = Remove(@, mortgage_id)] ELSE db)

\* GET /mortgage-details/{mortgage_id}/revisions
get_mortgage_revisions(current_user, mortgage_id) ==
    /\ Request([op |-> "get_mortgage_revisions", current_user |-> current_user,
             mortgage_id |-> mortgage_id],
            IF Found(current_user, mortgage_id)
            THEN Ok(SortRevisions(OfMortgage(db.mortgagerevision, mortgage_id)))
            ELSE MortgageNotFound,
            db)

\* POST /mortgage-details/{mortgage_id}/revisions
create_mortgage_revision(current_user, mortgage_id, revision_data) ==
    LET row == [id |-> NextId(db.mortgagerevision), mortgage_id |-> mortgage_id]
                   @@ revision_data
    IN  /\ Len(db.mortgagerevision) + Len(db.mortgageprepayment) < MaxRecords
        /\ Request([op |-> "create_mortgage_revision", current_user |-> current_user,
                    mortgage_id |-> mortgage_id],
                   IF Found(current_user, mortgage_id) THEN Ok(row) ELSE MortgageNotFound,
                   IF Found(current_user, mortgage_id)
                   THEN [db EXCEPT !.mortgagerevision = Insert(@, row)] ELSE db)

\* PUT /mortgage-details/{mortgage_id}/revisions/{revision_id}
update_mortgage_revision(current_user, mortgage_id, revision_id, revision_data) ==
    LET known == /\ Has(db.mortgagerevision, revision_id)
                 /\ Get(db.mortgagerevision, revision_id).mortgage_id = mortgage_id
        row == SetFields(Get(db.mortgagerevision, revision_id), revision_data)
    IN  /\ Request([op |-> "update_mortgage_revision", current_user |-> current_user,
                 mortgage_id |-> mortgage_id, revision_id |-> revision_id],
                IF ~Found(current_user, mortgage_id) THEN MortgageNotFound
                ELSE IF ~known THEN HTTPException(404, "Revision not found")
                ELSE Ok(row),
                IF Found(current_user, mortgage_id) /\ known
                THEN [db EXCEPT !.mortgagerevision = Replace(@, row)] ELSE db)

\* GET /mortgage-details/{mortgage_id}/prepayments
get_mortgage_prepayments(current_user, mortgage_id) ==
    /\ Request([op |-> "get_mortgage_prepayments", current_user |-> current_user,
             mortgage_id |-> mortgage_id],
            IF Found(current_user, mortgage_id)
            THEN Ok(OrderByPaymentDate(OfMortgage(db.mortgageprepayment, mortgage_id)))
            ELSE MortgageNotFound,
            db)

\* POST /mortgage-details/{mortgage_id}/prepayments
create_mortgage_prepayment(current_user, mortgage_id, prepayment_data) ==
    LET row == [id |-> NextId(db.mortgageprepayment), mortgage_id |-> mortgage_id]
                   @@ prepayment_data
    IN  /\ Len(db.mortgagerevision) + Len(db.mortgageprepayment) < MaxRecords
        /\ Request([op |-> "create_mortgage_prepayment", current_user |-> current_user,
                    mortgage_id |-> mortgage_id],
                   IF Found(current_user, mortgage_id) THEN Ok(row) ELSE MortgageNotFound,
                   IF Found(current_user, mortgage_id)
                   THEN [db EXCEPT !.mortgageprepayment = Insert(@, row)] ELSE db)

\* GET /mortgage-details/property/{property_id}/details: the mortgage or null
get_mortgage_by_property(current_user, property_id) ==
    /\ Request([op |-> "get_mortgage_by_property", current_user |-> current_user,
             property_id |-> property_id],
            IF Owns(current_user, property_id)
            THEN Ok(First(SelectSeq(db.mortgagedetails,
                                    LAMBDA m : m.property_id = property_id)))
            ELSE PropertyNotFound,
            db)

\* the rows a calculation endpoint hands to the engine
MortgageOf(mortgage_id) == Get(db.mortgagedetails, mortgage_id)
RevisionsOf(mortgage_id) == OfMortgage(db.mortgagerevision, mortgage_id)
PrepaymentsOf(mortgage_id) == OfMortgage(db.mortgageprepayment, mortgage_id)

\* GET /mortgage-details/{mortgage_id}/calculate-schedule
calculate_amortization_schedule(current_user, mortgage_id) ==
    /\ Request([op |-> "calculate_amortization_schedule", current_user |-> current_user,
             mortgage_id |-> mortgage_id],
            IF Found(current_user, mortgage_id)
            THEN Ok([schedule |-> generate_amortization_schedule(MortgageOf(mortgage_id),
                         RevisionsOf(mortgage_id), PrepaymentsOf(mortgage_id))])
            ELSE MortgageNotFound,
            db)

\* GET /mortgage-details/{mortgage_id}/current-status
get_current_mortgage_status(current_user, mortgage_id, as_of_date, today) ==
    /\ Request([op |-> "get_current_mortgage_status", current_user |-> current_user,
             mortgage_id |-> mortgage_id],
            IF Found(current_user, mortgage_id)
            THEN Ok(calculate_current_payment_and_balance(MortgageOf(mortgage_id),
                        RevisionsOf(mortgage_id), PrepaymentsOf(mortgage_id),
                        as_of_date, today))
            ELSE MortgageNotFound,
            db)

\* GET /mortgage-details/{mortgage_id}/summary
get_mortgage_summary(current_user, mortgage_id, today) ==
    /\ Request([op |-> "get_mortgage_summary", current_user |-> current_user,
             mortgage_id |-> mortgage_id],
            IF Found(current_user, mortgage_id)
            THEN Ok(calculate_mortgage_summary(MortgageOf(mortgage_id),
                        RevisionsOf(mortgage_id), PrepaymentsOf(mortgage_id), today))
            ELSE MortgageNotFound,
            db)

\* POST /mortgage-details/{mortgage_id}/calculate-prepayment-impact
post_calculate_prepayment_impact(current_user, mortgage_id, prepayment_data) ==
    /\ Request([op |-> "calculate_prepayment_impact", current_user |-> current_user,
             mortgage_id |-> mortgage_id],
            IF Found(current_user, mortgage_id)
            THEN Ok(calculate_prepayment_impact(MortgageOf(mortgage_id),
                        RevisionsOf(mortgage_id), PrepaymentsOf(mortgage_id),
                        prepayment_data.amount, prepayment_data.payment_date))
            ELSE MortgageNotFound,
            db)

\* the DATE value the database keeps for an ISO string, when it takes one
DateOfIso(s) == Date(s.isoformat[1], s.isoformat[2])

\* existing_dates = {rev.effective_date for rev in existing_revisions}
ExistingDates(mortgage_id) ==
    {rev.effective_date : rev \in Rows(RevisionsOf(mortgage_id))}

\* for revision_date in calendar: if revision_date not in existing_dates; the
\* calendar holds ISO strings and existing_dates holds dates
MissingDates(calendar, existing_dates) ==
    SelectSeq(calendar, LAMBDA revision_date : revision_date \notin existing_dates)

\* the MortgageRevision rows built for the missing dates, as stored
CreatedRevisions(m, missing) ==
    [k \in 1..Len(missing) |->
        [id |-> NextId(db.mortgagerevision) + k - 1,
         mortgage_id |-> m.id,
         effective_date |-> DateOfIso(missing[k]),
         euribor_rate |-> None,
         margin_rate |-> m.margin_percentage,
         period_months |-> m.review_period_months]]

\* what the endpoint answers and commits once the mortgage is found.  A session
\* that takes no string for a DATE column fails at commit (db.date_from_string).
CalendarOutcome(m, calendar, create_missing) ==
    LET missing == IF create_missing
                   THEN MissingDates(calendar, ExistingDates(m.id)) ELSE <<>>
        created_revisions == CreatedRevisions(m, missing)
    IN  IF missing # <<>> /\ ~db.date_from_string
        THEN [response |-> Unhandled("StatementError"), database |-> db]
        ELSE [response |->
                  Ok([revision_calendar |-> calendar,
                      created_revisions |-> Len(created_revisions),
                      created_revision_dates |->
                          [k \in 1..Len(created_revisions) |->
                              IsoFormat(created_revisions[k].effective_date)]]),
              database |->
                  [db EXCEPT !.mortgagerevision = @ \o created_revisions]]

\* POST /mortgage-details/{mortgage_id}/generate-revision-calendar
post_generate_revision_calendar(current_user, mortgage_id, create_missing) ==
    LET m == MortgageOf(mortgage_id)
        outcome == CalendarOutcome(m, generate_revision_calendar(m.start_date, m.end_date,
                                          m.review_period_months, m.margin_percentage),
                                   create_missing)
    IN  /\ (create_missing /\ Found(current_user, mortgage_id)) =>
               Len(outcome.database.mortgagerevision) + Len(db.mortgageprepayment) <= MaxRecords
        /\ Request([op |-> "generate_revision_calendar", current_user |-> current_user,
                    mortgage_id |-> mortgage_id, create_missing |-> create_missing],
                   IF Found(current_user, mortgage_id) THEN outcome.response
                   ELSE MortgageNotFound,
                   IF Found(current_user, mortgage_id) THEN outcome.database ELSE db)

\* select(EuriborRate).where(EuriborRate.date <= revision.effective_date)
\*     .order_by(EuriborRate.date.desc()).limit(1): whether it finds a row, and the row
RatesUpTo(effective_date) == {e \in Rows(db.euriborrate) : DateLe(e.date, effective_date)}
ClosestRate(effective_date) ==
    CHOOSE e \in RatesUpTo(effective_date) :
        \A o \in RatesUpTo(effective_date) : DateLe(o.date, e.date)

\* rate_value: the column of the requested period, None for any other period
RateValue(euribor_rate, rate_period) ==
    CASE rate_period = "12m" -> euribor_rate.rate_12m
      [] rate_period = "6m" -> euribor_rate.rate_6m
      [] rate_period = "3m" -> euribor_rate.rate_3m
      [] rate_period = "1m" -> euribor_rate.rate_1m
      [] OTHER -> None

\* the revisions the query of the handler selects
WithoutEuribor(mortgage_id) ==
    SelectSeq(db.mortgagerevision,
              LAMBDA r : r.mortgage_id = mortgage_id /\ r.euribor_rate = None)

\* the rate a selected revision is given, None when it is given none
RateFor(revision, rate_period) ==
    IF RatesUpTo(revision.effective_date) = {} THEN None
    ELSE RateValue(ClosestRate(revision.effective_date), rate_period)

\* the revision table after the loop and the commit
AssignRates(table, mortgage_id, rate_period) ==
    [i \in 1..Len(table) |->
        IF /\ table[i].mortgage_id = mortgage_id
           /\ table[i].euribor_rate = None
           /\ RateFor(table[i], rate_period) # None
        THEN [table[i] EXCEPT !.euribor_rate = RateFor(table[i], rate_period)]
        ELSE table[i]]

\* POST /mortgage-details/{mortgage_id}/auto-assign-euribor
auto_assign_euribor_rates(current_user, mortgage_id, rate_period) ==
    LET selected == WithoutEuribor(mortgage_id)
        updated == SelectSeq(selected, LAMBDA r : RateFor(r, rate_period) # None)
        errors == SelectSeq(selected, LAMBDA r : RateFor(r, rate_period) = None)
    IN  /\ Request([op |-> "auto_assign_euribor_rates", current_user |-> current_user,
                 mortgage_id |-> mortgage_id, rate_period |-> rate_period],
                IF ~Found(current_user, mortgage_id) THEN MortgageNotFound
                ELSE IF selected = <<>>
                     THEN Ok([message |-> "No revisions found without Euribor rates",
                              updated |-> 0])
                     ELSE Ok([message |-> "Updated revisions with Euribor rates",
                              updated |-> Len(updated),
                              errors |-> [k \in 1..Len(errors) |->
                                             errors[k].effective_date]]),
                IF Found(current_user, mortgage_id)
                THEN [db EXCEPT !.mortgagerevision = AssignRates(@, mortgage_id, rate_period)]
                ELSE db)

(***************************************************************************)
(* Revisions of one mortgage: created one by one, created from the         *)
(* calendar, and given their euribor_rate from the EuriborRate table.      *)
(***************************************************************************)
StoredLoan(id, property_id, loan) == [id |-> id, property_id |-> property_id] @@ loan

RouterLoan == Loan(R(120), <<"Variable", R(600)>>, Date(0, 1), Date(MaxMonth, 1))

EuriborRow(id, on, rate_12m, rate_6m) ==
    [id |-> id, date |-> on, rate_12m |-> rate_12m, rate_6m |-> rate_6m,
     rate_3m |-> None, rate_1m |-> None]

\* no rates; a 12-month rate on the first day; then a later row that has the
\* 6-month rate only, inserted after it or before it
EuriborTables ==
    {<<>>,
     <<EuriborRow(1, Date(0, 1), R(-1500), None)>>,
     <<EuriborRow(1, Date(0, 1), R(-1500), None), EuriborRow(2, Date(1, 15), None, R(300))>>,
     <<EuriborRow(1, Date(1, 15), None, R(300)), EuriborRow(2, Date(0, 1), R(-1500), None)>>}

RevisionData ==
    [effective_date : FirstDays, euribor_rate : EuriborRates, margin_rate : MarginRates,
     period_months : {12}]
RatePeriods == {"12m", "6m", "3m", "1y"}

Database(loan, euriborrate, date_from_string) ==
    [mortgagedetails |-> <<StoredLoan(1, 1, loan)>>,
     mortgagerevision |-> <<>>,
     mortgageprepayment |-> <<>>,
     euriborrate |-> euriborrate,
     date_from_string |-> date_from_string]

InitRevisions ==
    /\ db \in {Database([RouterLoan EXCEPT !.review_period_months = p], t, b) :
                  p \in {MaxMonth, 12}, t \in EuriborTables, b \in BOOLEAN}
    /\ mortgage = None
    /\ revisions = <<>>
    /\ prepayments = <<>>
    /\ call = Idle
    /\ ret = None

NextRevisions ==
    \/ \E d \in RevisionData : create_mortgage_revision(1, 1, d)
    \/ \E c \in BOOLEAN : post_generate_revision_calendar(1, 1, c)
    \/ \E p \in RatePeriods : auto_assign_euribor_rates(1, 1, p)
    \/ Return

SpecRevisions == InitRevisions /\ [][NextRevisions]_vars

(***************************************************************************)
(* Every endpoint of the router, called by the owner of a mortgage and by  *)
(* another user.                                                           *)
(***************************************************************************)
MortgageIds == 1..MaxRecords
PropertyIds == DOMAIN Property

\* what the requests carry
MortgageData(property_id) == [property_id |-> property_id] @@ RouterLoan
MortgageUpdate == [outstanding_balance |-> R(70)]
RevisionCreate ==
    [effective_date |-> Date(0, 1), euribor_rate |-> None, margin_rate |-> R(600),
     period_months |-> 12]
RevisionUpdate == [euribor_rate |-> R(-1500)]
PrepaymentCreate == [payment_date |-> Date(0, 1), amount |-> R(40)]

InitRouter ==
    /\ db \in {Database(RouterLoan, t, b) :
                  t \in {<<EuriborRow(1, Date(0, 1), R(-1500), None)>>}, b \in BOOLEAN}
    /\ mortgage = None
    /\ revisions = <<>>
    /\ prepayments = <<>>
    /\ call = Idle
    /\ ret = None

NextRouter ==
    \/ \E u \in Users, p \in PropertyIds \cup {0} : get_mortgage_details(u, p)
    \/ \E u \in Users, p \in PropertyIds : create_mortgage_details(u, MortgageData(p))
    \/ \E u \in Users, p \in PropertyIds : get_mortgage_by_property(u, p)
    \/ \E u \in Users, m \in MortgageIds :
          \/ get_mortgage_detail(u, m)
          \/ update_mortgage_details(u, m, MortgageUpdate)
          \/ delete_mortgage_details(u, m)
          \/ get_mortgage_revisions(u, m)
          \/ create_mortgage_revision(u, m, RevisionCreate)
          \/ \E r \in 1..MaxRecords : update_mortgage_revision(u, m, r, RevisionUpdate)
          \/ get_mortgage_prepayments(u, m)
          \/ create_mortgage_prepayment(u, m, PrepaymentCreate)
          \/ calculate_amortization_schedule(u, m)
          \/ get_current_mortgage_status(u, m, NoDate, Date(0, 15))
          \/ get_mortgage_summary(u, m, Date(0, 15))
          \/ \E c \in BOOLEAN : post_generate_revision_calendar(u, m, c)
          \/ post_calculate_prepayment_impact(u, m, PrepaymentCreate)
          \/ auto_assign_euribor_rates(u, m, "12m")
    \/ Return

SpecRouter == InitRouter /\ [][NextRouter]_vars

(***************************************************************************)
(* Properties of the stored revisions.                                     *)
(***************************************************************************)
\* C21: the revisions of a mortgage are unique per effective_date, whatever
\* create_mortgage_revision and generate_revision_calendar(create_missing=true)
\* calls were made: the calendar creates a revision only for a date that has none,
\* so a second call in a row creates none.
C21_UniquePerEffectiveDate ==
    \A i, j \in 1..Len(db.mortgagerevision) :
        (/\ db.mortgagerevision[i].mortgage_id = db.mortgagerevision[j].mortgage_id
         /\ db.mortgagerevision[i].effective_date = db.mortgagerevision[j].effective_date)
            => i = j

\* the closest available rate of a tenor at or before a date: the value of the
\* latest EuriborRate row dated <= the date that has a value for the tenor
RowsWithRate(database, on, tenor) ==
    {e \in Rows(database.euriborrate) :
        DateLe(e.date, on) /\ RateValue(e, tenor) # None}
RateAsOf(database, on, tenor) ==
    IF RowsWithRate(database, on, tenor) = {} THEN None
    ELSE RateValue(CHOOSE e \in RowsWithRate(database, on, tenor) :
                       \A o \in RowsWithRate(database, on, tenor) : DateLe(o.date, e.date),
                   tenor)

\* C27: auto_assign_euribor_rates gives every revision of the mortgage whose
\* euribor_rate is null the closest available rate of the requested period at or
\* before its effective_date, leaves it null when there is none, and changes no
\* other revision.
C27_ClosestAvailableRate ==
    [][(call = Idle /\ call'.op = "auto_assign_euribor_rates" /\ ret'.status_code = 200) =>
          /\ Len(db'.mortgagerevision) = Len(db.mortgagerevision)
          /\ \A i \in 1..Len(db.mortgagerevision) :
                db'.mortgagerevision[i] =
                    IF /\ db.mortgagerevision[i].mortgage_id = call'.mortgage_id
                       /\ db.mortgagerevision[i].euribor_rate = None
                    THEN [db.mortgagerevision[i] EXCEPT !.euribor_rate =
                             RateAsOf(db, db.mortgagerevision[i].effective_date,
                                      call'.rate_period)]
                    ELSE db.mortgagerevision[i]]_vars

(***************************************************************************)
(* Properties of the endpoints.                                            *)
(***************************************************************************)
\* a request addressed to a mortgage, or to a property, of another user
AddressesMortgage(c) == "mortgage_id" \in DOMAIN c
AddressesProperty(c) == "property_id" \in DOMAIN c /\ c.op # "get_mortgage_details"
Foreign(c, database) ==
    \/ /\ AddressesMortgage(c)
       /\ Has(database.mortgagedetails, c.mortgage_id)
       /\ ~Owns(c.current_user, Get(database.mortgagedetails, c.mortgage_id).property_id)
    \/ /\ AddressesProperty(c)
       /\ ~Owns(c.current_user, c.property_id)

\* an answer that is a 404 error and nothing else
IsNotFound(response) ==
    /\ DOMAIN response = {"status_code", "detail"}
    /\ response.status_code = 404
    /\ response.detail \in {"Mortgage not found", "Property not found"}

BeginCreate(t, current_user, mortgage_data) ==
    LET c == [op |-> "create_mortgage_details", current_user |-> current_user,
              property_id |-> mortgage_data.property_id, mortgage_data |-> mortgage_data]
        passes == /\ Owns(current_user, mortgage_data.property_id)
                  /\ UniqueProperty(db.mortgagedetails, mortgage_data.property_id)
    IN  /\ call[t] = Idle
        /\ NextId(db.mortgagedetails) <= MaxRecords
        /\ call' = [call EXCEPT ![t] = c @@ [pc |-> IF passes THEN "commit" ELSE "done"]]
        /\ ret' = [ret EXCEPT ![t] =
                      IF ~Owns(current_user, mortgage_data.property_id) THEN PropertyNotFound
                      ELSE IF ~UniqueProperty(db.mortgagedetails, mortgage_data.property_id)
                           THEN HTTPException(400,
                                    "Mortgage details already exist for this property")
                           ELSE None]
        /\ UNCHANGED <<db, mortgage, revisions, prepayments>>

\* session.add, session.commit, session.refresh: the unique index on property_id
\* refuses a second row of the property, and nothing catches the error
CommitCreate(t) ==
    /\ call[t] # Idle /\ call[t].pc = "commit" /\ call[t].op = "create_mortgage_details"
    /\ LET row == [id |-> NextId(db.mortgagedetails)] @@ call[t].mortgage_data
       IN  IF UniqueProperty(db.mortgagedetails, call[t].property_id)
           THEN /\ db' = [db EXCEPT !.mortgagedetails = Insert(@, row)]
                /\ ret' = [ret EXCEPT ![t] = Ok(row)]
           ELSE /\ db' = db
                /\ ret' = [ret EXCEPT ![t] = Unhandled("IntegrityError")]
    /\ call' = [call EXCEPT ![t].pc = "done"]
    /\ UNCHANGED <<mortgage, revisions, prepayments>>

\* delete_mortgage_details up to session.delete: the two lookups of the handler
BeginDelete(t, current_user, mortgage_id) ==
    LET c == [op |-> "delete_mortgage_details", current_user |-> current_user,
              mortgage_id |-> mortgage_id]
    IN  /\ call[t] = Idle
        /\ call' = [call EXCEPT ![t] =
                       c @@ [pc |-> IF Found(current_user, mortgage_id)
                                    THEN "commit" ELSE "done"]]
        /\ ret' = [ret EXCEPT ![t] =
                      IF Found(current_user, mortgage_id) THEN None ELSE MortgageNotFound]
        /\ UNCHANGED <<db, mortgage, revisions, prepayments>>

\* session.delete, session.commit: when the row is gone by now the DELETE
\* matches no row, which the session reports as a warning or as StaleDataError
CommitDelete(t) ==
    /\ call[t] # Idle /\ call[t].pc = "commit" /\ call[t].op = "delete_mortgage_details"
    /\ db' = [db EXCEPT !.mortgagedetails = Remove(@, call[t].mortgage_id)]
    /\ \/ ret' = [ret EXCEPT ![t] = Ok([message |-> "Mortgage details deleted successfully"])]
       \/ /\ ~Has(db.mortgagedetails, call[t].mortgage_id)
          /\ ret' = [ret EXCEPT ![t] = Unhandled("StaleDataError")]
    /\ call' = [call EXCEPT ![t].pc = "done"]
    /\ UNCHANGED <<mortgage, revisions, prepayments>>

InitRace ==
    /\ db \in {Database(RouterLoan, <<>>, b) : b \in BOOLEAN}
    /\ mortgage = None
    /\ revisions = <<>>
    /\ prepayments = <<>>
    /\ call = [t \in Threads |-> Idle]
    /\ ret = [t \in Threads |-> None]

NextRace ==
    \/ \E t \in Threads, u \in Users, p \in PropertyIds : BeginCreate(t, u, MortgageData(p))
    \/ \E t \in Threads : CommitCreate(t)
    \/ \E t \in Threads, u \in Users, m \in MortgageIds : BeginDelete(t, u, m)
    \/ \E t \in Threads : CommitDelete(t)
    \/ \E t \in Threads : Respond(t)

SpecRace == InitRace /\ [][NextRace]_vars

\* the rows of a property in the mortgage table
MortgagesOfProperty(database, property_id) ==
    {i \in 1..Len(database.mortgagedetails) :
        database.mortgagedetails[i].property_id = property_id}

AtMostOnePerProperty(database) ==
    \A p \in PropertyIds : Cardinality(MortgagesOfProperty(database, p)) <= 1

\* thread t's create reaches its answer in this step
CreateAnswered(t) ==
    /\ call'[t] # Idle
    /\ call'[t].op = "create_mortgage_details"
    /\ call'[t].pc = "done"
    /\ (call[t] = Idle \/ call[t].pc # "done")

\* C29: whatever the interleaving of creates and deletes, a property has at
\* most one mortgage, and a create by the owner of a property that has a
\* mortgage when the create is decided is answered 400 and changes no row.
C29_OneMortgagePerProperty ==
    [][/\ AtMostOnePerProperty(db')
       /\ \A t \in Threads :
             (/\ CreateAnswered(t)
              /\ Owns(call'[t].current_user, call'[t].property_id)
              /\ ~UniqueProperty(db.mortgagedetails, call'[t].property_id)) =>
                 /\ ret'[t] = HTTPException(400,
                                  "Mortgage details already exist for this property")
                 /\ db' = db]_vars

=============================================================================
